---------------------------- MODULE Spec2Model ----------------------------
(***************************************************************************)
(* ReviewerRecFHE: the contract's storage, its six external functions and  *)
(* the decryption-oracle round trip (FHE.requestDecryption issues a fresh  *)
(* request id, the oracle later calls processMatching / finalizeReveal     *)
(* with a cleartext and a proof that FHE.checkSignatures verifies).        *)
(* Every function runs as one atomic transaction; a revert restores the    *)
(* whole storage, the oracle's request counter and the event log.          *)
(***************************************************************************)
EXTENDS Integers, Sequences, FiniteSets

\* ---- bounds of the model ----
MaxPapers == 2
MaxReviewers == 2
MaxRequests == 3
MaxEvents == 5

\* euint32 handles supplied by callers (0 is the uninitialised handle): every
\* ciphertext has a handle of its own, so the n-th submission of ciphertexts
\* passes four handles no other submission passes
InputHandles(n) == <<4 * n + 1, 4 * n + 2, 4 * n + 3, 4 * n + 4>>
\* keys looked up in the paper-indexed mappings (one past the last id that can exist)
PaperKeys == 0..(MaxPapers + 1)
ReviewerKeys == 0..(MaxReviewers + 1)
\* request ids a callback may present (MaxRequests itself is never issued)
RequestKeys == 0..MaxRequests

\* cleartext payloads the oracle may deliver: the ABI encodings of two
\* different string[] values and a byte string that is no such encoding
Cleartexts == {"strings", "other strings", "malformed"}
\* a proof is the KMS signature over one (requestId, cleartexts) pair; a
\* callback is tried with the signature over its own pair and, for the first
\* string[] payload and for the malformed one, with the signature over another
\* request id and with the signature over another payload
Proofs(requestId, cleartexts) ==
    {[rid |-> requestId, ct |-> cleartexts]}
    \cup (IF cleartexts = "other strings" THEN {}
          ELSE {[rid |-> (requestId + 1) % (MaxRequests + 1), ct |-> cleartexts],
                [rid |-> requestId,
                 ct |-> IF cleartexts = "malformed" THEN "strings" ELSE "malformed"]})

\* plaintext of the simplified match score
SimplifiedScore == 100

\* ---- default (zero) values of the Solidity mappings ----
ZeroPaper ==
    [id |-> 0, encryptedTitle |-> 0, encryptedAbstract |-> 0,
     encryptedKeywords |-> 0, encryptedDiscipline |-> 0, timestamp |-> 0]

ZeroReviewer ==
    [id |-> 0, encryptedExpertise |-> 0, encryptedAffiliation |-> 0,
     encryptedPublicationCount |-> 0, encryptedReviewCount |-> 0]

ZeroMatch ==
    [paperId |-> 0, reviewerId |-> 0, matchScore |-> 0, isRevealed |-> FALSE]

VARIABLES
    paperCount,           \* uint256 public paperCount
    reviewerCount,        \* uint256 public reviewerCount
    encryptedPapers,      \* mapping(uint256 => EncryptedPaper)
    encryptedReviewers,   \* mapping(uint256 => EncryptedReviewer)
    matchResults,         \* mapping(uint256 => MatchResult)
    requestToPaperId,     \* mapping(uint256 => uint256), matching requests
    requestToReviewerId,  \* mapping(uint256 => uint256), reveal requests
    events,               \* the emitted events, in order
    requestCounter,       \* next id FHE.requestDecryption hands out
    last,                 \* the last transaction: function, argument, outcome
    processed,            \* request ids on which processMatching has succeeded
    finalized,            \* request ids on which finalizeReveal has succeeded
    issued                \* per request id: the function that issued it, its paper

storage ==
    <<paperCount, reviewerCount, encryptedPapers, encryptedReviewers,
      matchResults, requestToPaperId, requestToReviewerId, events,
      requestCounter>>

history == <<processed, finalized, issued>>

vars == <<storage, last, history>>

\* ---- external primitives ----

\* FHE.checkSignatures: the proof authenticates exactly this request id and
\* exactly these cleartexts
CheckSignatures(requestId, cleartexts, proof) ==
    proof = [rid |-> requestId, ct |-> cleartexts]

\* abi.decode(cleartexts, (string[])) reverts on bytes that encode no string[]
AbiDecodable(cleartexts) == cleartexts \in {"strings", "other strings"}

\* FHE.asEuint32(v): the handle of the trivial encryption of v, a handle unlike
\* the callers' handles
AsEuint32(v) == 4 * (MaxPapers + MaxReviewers) + 1 + v

\* ---- outcomes (the revert strings of the contract) ----
OK == "ok"
ErrInvalidPaper == "Invalid paper ID"
ErrInvalidRequest == "Invalid request"
ErrNoMatch == "No match found"
ErrAlreadyRevealed == "Already revealed"
ErrNoReviewers == "No reviewers available"
ErrSignatures == "Invalid signatures"
ErrDecode == "Decode error"

\* a transaction as an observer sees it: the function, its first argument, the
\* verdict of the verifier on its proof and of the decoder on its payload (TRUE
\* where the call does not get to verify or to decode), and the outcome
Call(op, arg, sigOk, decOk, result) ==
    [op |-> op, arg |-> arg, sigOk |-> sigOk, decOk |-> decOk, result |-> result]

\* A reverted call changes nothing but the observer's record of it, so a run
\* with two reverted calls in a row visits no state and takes no storage step
\* that a run with one does not: a reverted call is recorded after a call that
\* went through.
Reverted(call) == call.result # OK

\* a request id FHE.requestDecryption has not handed out
NotIssued == <<"none", 0>>

Init ==
    /\ paperCount = 0
    /\ reviewerCount = 0
    /\ encryptedPapers = [k \in PaperKeys |-> ZeroPaper]
    /\ encryptedReviewers = [k \in ReviewerKeys |-> ZeroReviewer]
    /\ matchResults = [k \in PaperKeys |-> ZeroMatch]
    /\ requestToPaperId = [r \in RequestKeys |-> 0]
    /\ requestToReviewerId = [r \in RequestKeys |-> 0]
    /\ events = << >>
    /\ requestCounter = 0
    /\ last = Call("constructor", 0, TRUE, TRUE, OK)
    /\ processed = {}
    /\ finalized = {}
    /\ issued = [r \in RequestKeys |-> NotIssued]

\* block.timestamp is read by submitEncryptedPaper only; blocks never go back in
\* time. The clock of the model stands one tick after the number of events
\* emitted so far.
BlockTimestamp == Len(events) + 1

\* ---- FHE.requestDecryption ----
\* the id counter wrapped round
newRequestId_Wrapped == requestCounter % 2

\* the id of the request before returned once more
newRequestId_Previous == IF requestCounter = 0 THEN 0 ELSE requestCounter - 1

\* uint256 reqId = FHE.requestDecryption(...): an id no request was given before
newRequestId == requestCounter

\* ---- submitEncryptedPaper ----
\* one counter shared by papers and reviewers
newPaperId_Shared == paperCount + reviewerCount + 1

\* paperCount += 1; newId = paperCount
newPaperId == paperCount + 1

submitEncryptedPaper(encryptedTitle, encryptedAbstract, encryptedKeywords, encryptedDiscipline, blockTimestamp) ==
    /\ paperCount < MaxPapers
    /\ Len(events) < MaxEvents
    /\ LET newId == newPaperId IN
        /\ paperCount' = paperCount + 1
        /\ encryptedPapers' = [encryptedPapers EXCEPT ![newId] =
              [id |-> newId,
               encryptedTitle |-> encryptedTitle,
               encryptedAbstract |-> encryptedAbstract,
               encryptedKeywords |-> encryptedKeywords,
               encryptedDiscipline |-> encryptedDiscipline,
               timestamp |-> blockTimestamp]]
        /\ events' = Append(events, <<"PaperSubmitted", newId, blockTimestamp>>)
        /\ last' = Call("submitEncryptedPaper", newId, TRUE, TRUE, OK)
    /\ UNCHANGED <<reviewerCount, encryptedReviewers, matchResults,
                   requestToPaperId, requestToReviewerId, requestCounter,
                   history>>

\* the id taken from the paper counter
newReviewerId_FromPaperCount == paperCount + 1

\* ---- addEncryptedReviewer ----
\* reviewerCount += 1; newId = reviewerCount
newReviewerId == reviewerCount + 1

addEncryptedReviewer(encryptedExpertise, encryptedAffiliation, encryptedPublicationCount, encryptedReviewCount) ==
    /\ reviewerCount < MaxReviewers
    /\ Len(events) < MaxEvents
    /\ LET newId == newReviewerId IN
        /\ reviewerCount' = reviewerCount + 1
        /\ encryptedReviewers' = [encryptedReviewers EXCEPT ![newId] =
              [id |-> newId,
               encryptedExpertise |-> encryptedExpertise,
               encryptedAffiliation |-> encryptedAffiliation,
               encryptedPublicationCount |-> encryptedPublicationCount,
               encryptedReviewCount |-> encryptedReviewCount]]
        /\ events' = Append(events, <<"ReviewerAdded", newId>>)
        /\ last' = Call("addEncryptedReviewer", newId, TRUE, TRUE, OK)
    /\ UNCHANGED <<paperCount, encryptedPapers, matchResults,
                   requestToPaperId, requestToReviewerId, requestCounter,
                   history>>

\* ---- requestMatchingReviewers ----
\* the bound check off by one
requestMatchingResult_OffByOne(paperId) ==
    IF paperId <= paperCount + 1 THEN OK ELSE ErrInvalidPaper

\* the bound check left out
requestMatchingResult_NoCheck(paperId) == OK

requestMatchingResult(paperId) ==
    IF paperId <= paperCount THEN OK ELSE ErrInvalidPaper

requestMatchingReviewers(paperId) ==
    LET result == requestMatchingResult(paperId)
        reqId == newRequestId
    IN  /\ last' = Call("requestMatchingReviewers", paperId, TRUE, TRUE, result)
        /\ IF result = OK
           THEN /\ requestCounter < MaxRequests
                /\ Len(events) < MaxEvents
                /\ requestCounter' = requestCounter + 1
                /\ requestToPaperId' = [requestToPaperId EXCEPT ![reqId] = paperId]
                /\ events' = Append(events, <<"MatchingRequested", paperId>>)
                /\ issued' = [issued EXCEPT ![reqId] = <<"matching", paperId>>]
                /\ UNCHANGED <<paperCount, reviewerCount, encryptedPapers,
                               encryptedReviewers, matchResults,
                               requestToReviewerId>>
           ELSE ~Reverted(last) /\ UNCHANGED <<storage, issued>>
        /\ UNCHANGED <<processed, finalized>>

\* ---- findBestMatch ----
\* the revert on an empty registry left out
findBestMatch_NoRevert(paperData) == 1

\* the last reviewer instead of the first
findBestMatch_Last(paperData) == reviewerCount

\* the reviewer picked by the payload
findBestMatch_ByPayload(paperData) ==
    IF reviewerCount = 0 THEN 0
    ELSE IF paperData = "strings" THEN 1 ELSE reviewerCount

\* the returned reviewer id, or 0 where the function reverts
findBestMatch(paperData) ==
    IF reviewerCount > 0 THEN 1 ELSE 0

\* the result stored as already revealed
newMatchResult_Revealed(paperId, bestMatchId) ==
    [paperId |-> paperId,
     reviewerId |-> bestMatchId,
     matchScore |-> AsEuint32(SimplifiedScore),
     isRevealed |-> TRUE]

\* the paper id stored in the reviewer field
newMatchResult_PaperAsReviewer(paperId, bestMatchId) ==
    [paperId |-> paperId,
     reviewerId |-> paperId,
     matchScore |-> AsEuint32(SimplifiedScore),
     isRevealed |-> FALSE]

\* ---- processMatching ----
\* the MatchResult struct processMatching stores
newMatchResult(paperId, bestMatchId) ==
    [paperId |-> paperId,
     reviewerId |-> bestMatchId,
     matchScore |-> AsEuint32(SimplifiedScore),
     isRevealed |-> FALSE]

\* the result stored under the reviewer's id
matchResultsAfter_KeyedByReviewer(requestId, cleartexts) ==
    [matchResults EXCEPT ![findBestMatch(cleartexts)] =
        newMatchResult(requestToPaperId[requestId], findBestMatch(cleartexts))]

\* the mapping after matchResults[paperId] = MatchResult({...}), where paperId
\* is the paper of the request and bestMatchId the evaluator's answer on the
\* decoded payload
matchResultsAfter(requestId, cleartexts) ==
    [matchResults EXCEPT ![requestToPaperId[requestId]] =
        newMatchResult(requestToPaperId[requestId], findBestMatch(cleartexts))]

processMatchingResult(requestId, cleartexts, proof) ==
    IF requestToPaperId[requestId] = 0 THEN ErrInvalidRequest
    ELSE IF ~CheckSignatures(requestId, cleartexts, proof) THEN ErrSignatures
    ELSE IF ~AbiDecodable(cleartexts) THEN ErrDecode
    ELSE IF findBestMatch(cleartexts) = 0 THEN ErrNoReviewers
    ELSE OK

processMatching(requestId, cleartexts, proof) ==
    LET result == processMatchingResult(requestId, cleartexts, proof)
        paperId == requestToPaperId[requestId]
    IN  /\ last' = Call("processMatching", requestId,
                        paperId # 0 => CheckSignatures(requestId, cleartexts, proof),
                        (paperId # 0 /\ CheckSignatures(requestId, cleartexts, proof))
                            => AbiDecodable(cleartexts),
                        result)
        /\ IF result = OK
           THEN /\ matchResults' = matchResultsAfter(requestId, cleartexts)
                /\ processed' = processed \cup {requestId}
                /\ UNCHANGED <<paperCount, reviewerCount, encryptedPapers,
                               encryptedReviewers, requestToPaperId,
                               requestToReviewerId, events, requestCounter>>
           ELSE ~Reverted(last) /\ UNCHANGED <<storage, processed>>
        /\ UNCHANGED <<finalized, issued>>

\* ---- revealMatchedReviewer ----
\* the isRevealed check left out
revealMatchedResult_NoRevealedCheck(paperId) ==
    IF matchResults[paperId].paperId = 0 THEN ErrNoMatch ELSE OK

\* the existence check left out
revealMatchedResult_NoMatchCheck(paperId) ==
    IF matchResults[paperId].isRevealed THEN ErrAlreadyRevealed ELSE OK

revealMatchedResult(paperId) ==
    IF matchResults[paperId].paperId = 0 THEN ErrNoMatch
    ELSE IF matchResults[paperId].isRevealed THEN ErrAlreadyRevealed
    ELSE OK

\* the decryption request made before the two checks, and kept by a failing call
revealMatchedReviewer_RequestFirst(paperId) ==
    LET result == revealMatchedResult(paperId)
        reqId == newRequestId
    IN  /\ last' = Call("revealMatchedReviewer", paperId, TRUE, TRUE, result)
        /\ requestCounter < MaxRequests
        /\ requestCounter' = requestCounter + 1
        /\ requestToReviewerId' =
              [requestToReviewerId EXCEPT ![reqId] = IF result = OK THEN paperId ELSE 0]
        /\ issued' = [issued EXCEPT ![reqId] = <<"reveal", paperId>>]
        /\ UNCHANGED <<paperCount, reviewerCount, encryptedPapers,
                       encryptedReviewers, matchResults,
                       requestToPaperId, events>>
        /\ UNCHANGED <<processed, finalized>>

revealMatchedReviewer(paperId) ==
    LET result == revealMatchedResult(paperId)
        reqId == newRequestId
    IN  /\ last' = Call("revealMatchedReviewer", paperId, TRUE, TRUE, result)
        /\ IF result = OK
           THEN /\ requestCounter < MaxRequests
                /\ requestCounter' = requestCounter + 1
                /\ requestToReviewerId' = [requestToReviewerId EXCEPT ![reqId] = paperId]
                /\ issued' = [issued EXCEPT ![reqId] = <<"reveal", paperId>>]
                /\ UNCHANGED <<paperCount, reviewerCount, encryptedPapers,
                               encryptedReviewers, matchResults,
                               requestToPaperId, events>>
           ELSE ~Reverted(last) /\ UNCHANGED <<storage, issued>>
        /\ UNCHANGED <<processed, finalized>>

\* ---- finalizeReveal ----
\* the flag toggled instead of set
revealedResult_Toggle(result) == [result EXCEPT !.isRevealed = ~@]

\* the flag left as it was
revealedResult_NotSet(result) == result

\* the score handle dropped with the reveal
revealedResult_ScoreCleared(result) ==
    [result EXCEPT !.isRevealed = TRUE, !.matchScore = 0]

\* result.isRevealed = true
revealedResult(result) == [result EXCEPT !.isRevealed = TRUE]

\* the signature check left out
finalizeRevealResult_NoCheck(requestId, cleartexts, proof) ==
    IF requestToReviewerId[requestId] = 0 THEN ErrInvalidRequest ELSE OK

\* one lookup for both kinds of request
finalizeRevealResult_AnyPending(requestId, cleartexts, proof) ==
    IF requestToReviewerId[requestId] = 0 /\ requestToPaperId[requestId] = 0
    THEN ErrInvalidRequest
    ELSE IF ~CheckSignatures(requestId, cleartexts, proof) THEN ErrSignatures
    ELSE OK

finalizeRevealResult(requestId, cleartexts, proof) ==
    IF requestToReviewerId[requestId] = 0 THEN ErrInvalidRequest
    ELSE IF ~CheckSignatures(requestId, cleartexts, proof) THEN ErrSignatures
    ELSE OK

finalizeReveal(requestId, cleartexts, proof) ==
    LET result == finalizeRevealResult(requestId, cleartexts, proof)
        paperId == requestToReviewerId[requestId]
    IN  /\ last' = Call("finalizeReveal", requestId,
                        paperId # 0 => CheckSignatures(requestId, cleartexts, proof),
                        TRUE, result)
        /\ IF result = OK
           THEN /\ Len(events) < MaxEvents
                /\ matchResults' = [matchResults EXCEPT ![paperId] = revealedResult(@)]
                /\ events' = Append(events,
                       <<"MatchRevealed", paperId, matchResults[paperId].reviewerId>>)
                /\ finalized' = finalized \cup {requestId}
                /\ UNCHANGED <<paperCount, reviewerCount, encryptedPapers,
                               encryptedReviewers, requestToPaperId,
                               requestToReviewerId, requestCounter>>
           ELSE ~Reverted(last) /\ UNCHANGED <<storage, finalized>>
        /\ UNCHANGED <<processed, issued>>

Next ==
    \/ \E h \in {InputHandles(paperCount + reviewerCount)} :
          submitEncryptedPaper(h[1], h[2], h[3], h[4], BlockTimestamp)
    \/ \E h \in {InputHandles(paperCount + reviewerCount)} :
          addEncryptedReviewer(h[1], h[2], h[3], h[4])
    \/ \E paperId \in PaperKeys : requestMatchingReviewers(paperId)
    \/ \E requestId \in RequestKeys, cleartexts \in Cleartexts :
         \E proof \in Proofs(requestId, cleartexts) :
          processMatching(requestId, cleartexts, proof)
    \/ \E paperId \in PaperKeys : revealMatchedReviewer(paperId)
    \/ \E requestId \in RequestKeys, cleartexts \in Cleartexts :
         \E proof \in Proofs(requestId, cleartexts) :
          finalizeReveal(requestId, cleartexts, proof)

Spec == Init /\ [][Next]_vars

\* ---- the decryption oracle as a fair process ----
\* FHE.requestDecryption registers the callback selector with the request: the
\* oracle answers every request it handed out by calling that function with
\* the request id, the decrypted payload and the proof over the two. The
\* payload of a matching request is the ABI encoding of a string[].
DeliverMatching(requestId) ==
    /\ issued[requestId][1] = "matching"
    /\ processMatching(requestId, "strings",
                       [rid |-> requestId, ct |-> "strings"])

DeliverReveal(requestId) ==
    /\ issued[requestId][1] = "reveal"
    /\ finalizeReveal(requestId, "strings",
                      [rid |-> requestId, ct |-> "strings"])

\* no request is left unanswered for ever
OracleFairness ==
    \A requestId \in RequestKeys :
        /\ WF_vars(DeliverMatching(requestId))
        /\ WF_vars(DeliverReveal(requestId))

FairSpec == Spec /\ OracleFairness

\* ---- vocabulary of the properties ----

\* a MatchResult exists for paper key p
HasMatch(p) == matchResults[p] # ZeroMatch

\* request id r is pending as a matching request / as a reveal request
PendingMatching(r) == requestToPaperId[r] # 0
PendingReveal(r) == requestToReviewerId[r] # 0

Emitted(e) == \E i \in 1..Len(events) : events[i] = e

\* ---- C1 ----
\* C1: replay guard for matching. Once processMatching has succeeded on a
\* request id, the pending entry of that id is gone, and a processMatching
\* call on an id it has already succeeded on fails with "Invalid request".
C1_MatchingConsumedOnce ==
    [][ /\ \A r \in processed' : ~PendingMatching(r)'
        /\ (last'.op = "processMatching" /\ last'.arg \in processed)
              => last'.result = ErrInvalidRequest ]_vars

\* ---- C2 ----
\* C2: replay guard for reveal. Once finalizeReveal has succeeded on a request
\* id, the pending entry of that id is gone, and a finalizeReveal call on an id
\* it has already succeeded on fails with "Invalid request" and emits nothing.
C2_RevealConsumedOnce ==
    [][ /\ \A r \in finalized' : ~PendingReveal(r)'
        /\ (last'.op = "finalizeReveal" /\ last'.arg \in finalized)
              => (last'.result = ErrInvalidRequest /\ events' = events) ]_vars

\* ---- C3 ----
\* C3: requestMatchingReviewers(0) always fails with "Invalid paper ID", and no
\* MatchingRequested(0) event is ever emitted.
C3_RequestZeroFails ==
    /\ (last.op = "requestMatchingReviewers" /\ last.arg = 0)
          => last.result = ErrInvalidPaper
    /\ ~Emitted(<<"MatchingRequested", 0>>)

\* ---- C4 ----
\* C4: requestMatchingReviewers(p) with p greater than the paper count fails
\* with "Invalid paper ID", creates no pending request and emits no event.
C4_RequestBeyondCountFails ==
    [][ (last'.op = "requestMatchingReviewers" /\ last'.arg > paperCount)
           => /\ last'.result = ErrInvalidPaper
              /\ requestToPaperId' = requestToPaperId
              /\ requestCounter' = requestCounter
              /\ events' = events ]_vars

\* scenario D: requestMatchingReviewers(2) was rejected with one paper submitted
C4_Witness ==
    /\ last.op = "requestMatchingReviewers"
    /\ last.arg = 2
    /\ paperCount = 1
    /\ last.result = ErrInvalidPaper

\* ---- C5 ----
\* C5: revealMatchedReviewer(p) fails with "No match found" when no MatchResult
\* exists for p (p = 0 and unsubmitted p included) and with "Already revealed"
\* when MatchResult[p] is revealed; neither call creates a pending reveal entry.
C5_RevealRejections ==
    [][ last'.op = "revealMatchedReviewer"
           => /\ ~HasMatch(last'.arg)
                    => /\ last'.result = ErrNoMatch
                       /\ requestToReviewerId' = requestToReviewerId
                       /\ requestCounter' = requestCounter
              /\ (HasMatch(last'.arg) /\ matchResults[last'.arg].isRevealed)
                    => /\ last'.result = ErrAlreadyRevealed
                       /\ requestToReviewerId' = requestToReviewerId
                       /\ requestCounter' = requestCounter ]_vars

\* a reveal of an already revealed result was rejected
C5_Witness ==
    /\ last.op = "revealMatchedReviewer"
    /\ last.result = ErrAlreadyRevealed
    /\ matchResults[last.arg].isRevealed

\* ---- C6 ----
\* C6 as stated: whenever processMatching is called for a pending matching
\* request while reviewerCount = 0, it fails with "No reviewers available" and
\* no MatchResult changes.
C6_EmptyRegistryAnyDelivery ==
    [][ (/\ last'.op = "processMatching"
         /\ PendingMatching(last'.arg)
         /\ reviewerCount = 0)
           => /\ last'.result = ErrNoReviewers
              /\ matchResults' = matchResults ]_vars

\* C6 as amended: with reviewerCount = 0, a processMatching call for a pending
\* matching request changes no MatchResult, and fails with "No reviewers
\* available" when its proof verifies and its cleartext decodes.
C6_EmptyRegistry ==
    [][ (/\ last'.op = "processMatching"
         /\ PendingMatching(last'.arg)
         /\ reviewerCount = 0)
           => /\ matchResults' = matchResults
              /\ (last'.sigOk /\ last'.decOk) => last'.result = ErrNoReviewers ]_vars

\* a verified, decodable callback for a pending request met an empty registry
C6_Witness ==
    /\ last.op = "processMatching"
    /\ PendingMatching(last.arg)
    /\ reviewerCount = 0
    /\ last.sigOk /\ last.decOk
    /\ last.result = ErrNoReviewers

\* ---- C7 ----
\* C7: a processMatching or finalizeReveal call whose proof does not verify
\* fails and leaves counters, records, match results, pending requests, the
\* request counter and the event log as they were.
C7_ProofFailureAborts ==
    [][ (last'.op \in {"processMatching", "finalizeReveal"} /\ ~last'.sigOk)
           => /\ last'.result # OK
              /\ storage' = storage
              /\ history' = history ]_vars

\* a finalizeReveal for a pending reveal request was rejected by the verifier
C7_Witness ==
    /\ last.op = "finalizeReveal"
    /\ PendingReveal(last.arg)
    /\ ~last.sigOk
    /\ last.result = ErrSignatures
    /\ ~matchResults[requestToReviewerId[last.arg]].isRevealed

\* ---- C8 ----
\* C8 as stated: once MatchResult[p].isRevealed is true it is true in every
\* later state. Deliveries that repeat an already processed request id (C1) are
\* left aside, so that a violation shows a fresh request undoing the flag.
C8_RevealedNeverReverts ==
    [][ \A p \in PaperKeys :
          (/\ matchResults[p].isRevealed
           /\ ~(last'.op = "processMatching" /\ last'.arg \in processed))
             => matchResults'[p].isRevealed ]_vars

\* C8 as amended: isRevealed of paper p goes from true to false only in a
\* successful processMatching for a request of p, which stores a new unrevealed
\* result; no other call resets it.
C8_RevealedResetOnlyByProcessMatching ==
    [][ \A p \in PaperKeys :
          (matchResults[p].isRevealed /\ ~matchResults'[p].isRevealed)
             => /\ last'.op = "processMatching"
                /\ last'.result = OK
                /\ requestToPaperId[last'.arg] = p
                /\ matchResults'[p] = newMatchResult(p, matchResults'[p].reviewerId) ]_vars

\* matching was requested again for a revealed paper and the flag is still set
C8_Witness ==
    /\ last.op = "requestMatchingReviewers"
    /\ last.result = OK
    /\ last.arg # 0
    /\ matchResults[last.arg].isRevealed

\* ---- C9 ----
PaperSubmittedEvents == SelectSeq(events, LAMBDA e : e[1] = "PaperSubmitted")
ReviewerAddedEvents == SelectSeq(events, LAMBDA e : e[1] = "ReviewerAdded")

C9_StoredIds ==
    /\ \A k \in PaperKeys :
          IF k \in 1..paperCount
          THEN encryptedPapers[k].id = k
          ELSE encryptedPapers[k] = ZeroPaper
    /\ \A k \in ReviewerKeys :
          IF k \in 1..reviewerCount
          THEN encryptedReviewers[k].id = k
          ELSE encryptedReviewers[k] = ZeroReviewer
    /\ Len(PaperSubmittedEvents) = paperCount
    /\ \A i \in 1..Len(PaperSubmittedEvents) : PaperSubmittedEvents[i][2] = i
    /\ Len(ReviewerAddedEvents) = reviewerCount
    /\ \A i \in 1..Len(ReviewerAddedEvents) : ReviewerAddedEvents[i][2] = i

C9_CounterSteps ==
    /\ last'.op = "submitEncryptedPaper"
          => /\ paperCount' = paperCount + 1
             /\ last'.arg = paperCount'
             /\ reviewerCount' = reviewerCount
    /\ last'.op = "addEncryptedReviewer"
          => /\ reviewerCount' = reviewerCount + 1
             /\ last'.arg = reviewerCount'
             /\ paperCount' = paperCount
    /\ last'.op \notin {"submitEncryptedPaper", "addEncryptedReviewer"}
          => /\ paperCount' = paperCount
             /\ reviewerCount' = reviewerCount

\* C9: papers and reviewers are numbered by two independent counters. The
\* stored papers are exactly ids 1..paperCount and the stored reviewers exactly
\* ids 1..reviewerCount, the k-th submission gets id k, each submission raises
\* its own counter by one and leaves the other alone.
C9_IndependentSequentialIds ==
    [][ C9_StoredIds /\ C9_StoredIds' /\ C9_CounterSteps ]_vars

\* two papers and one reviewer are stored, a paper having been submitted last
C9_Witness ==
    /\ last.op = "submitEncryptedPaper"
    /\ last.arg = 2
    /\ paperCount = 2
    /\ reviewerCount = 1

\* ---- C10 ----
ExistingReviewers == {k \in ReviewerKeys : encryptedReviewers[k] # ZeroReviewer}
LowestReviewerId ==
    CHOOSE k \in ExistingReviewers : \A j \in ExistingReviewers : k <= j

\* C10: a successful processMatching for a pending matching request of paper p
\* leaves MatchResult[p] with paperId p, the lowest existing reviewer id and
\* isRevealed false, whatever result p had before.
C10_ProcessMatchingWrites ==
    [][ (last'.op = "processMatching" /\ last'.result = OK)
           => LET p == requestToPaperId[last'.arg] IN
                /\ p # 0
                /\ matchResults'[p].paperId = p
                /\ matchResults'[p].reviewerId = LowestReviewerId
                /\ matchResults'[p].isRevealed = FALSE ]_vars

\* a revealed result of a paper was overwritten while two reviewers exist
C10_Witness ==
    /\ last.op = "processMatching"
    /\ last.result = OK
    /\ reviewerCount = 2
    /\ LET p == requestToPaperId[last.arg] IN
          /\ Emitted(<<"MatchRevealed", p, 1>>)
          /\ matchResults[p] = newMatchResult(p, 1)

\* ---- C11 ----
\* number of MatchRevealed events of paper p in the log
MatchRevealedCount(p) ==
    Cardinality({i \in 1..Len(events) :
                    events[i][1] = "MatchRevealed" /\ events[i][2] = p})

\* the reveal requests of paper p whose callback finalizeReveal has accepted
DeliveredReveals(p) == {r \in finalized : issued[r] = <<"reveal", p>>}

\* C11: a successful finalizeReveal on a pending reveal request of paper p
\* leaves MatchResult[p] revealed and appends exactly the event
\* MatchRevealed(p, MatchResult[p].reviewerId); no other step adds a
\* MatchRevealed event, and the log holds none for a paper no accepted callback
\* was delivered for, so one request and one accepted delivery make one event.
C11_FinalizeRevealEffect ==
    [][ /\ (last'.op = "finalizeReveal" /\ last'.result = OK)
           => LET p == requestToReviewerId[last'.arg] IN
                /\ p # 0
                /\ matchResults'[p].isRevealed
                /\ matchResults'[p].reviewerId = matchResults[p].reviewerId
                /\ events' = Append(events,
                       <<"MatchRevealed", p, matchResults'[p].reviewerId>>)
        /\ ~(last'.op = "finalizeReveal" /\ last'.result = OK)
           => \A p \in PaperKeys : MatchRevealedCount(p)' = MatchRevealedCount(p)
        /\ \A p \in PaperKeys :
              (DeliveredReveals(p)' = {}) => MatchRevealedCount(p)' = 0 ]_vars

\* the one reveal request of paper 2 has just had its one accepted callback:
\* the result is revealed and the log holds one MatchRevealed(2, 1)
C11_Witness ==
    /\ last.op = "finalizeReveal"
    /\ last.result = OK
    /\ Cardinality({r \in RequestKeys : issued[r] = <<"reveal", 2>>}) = 1
    /\ Cardinality(DeliveredReveals(2)) = 1
    /\ matchResults[2].isRevealed
    /\ MatchRevealedCount(2) = 1
    /\ events[Len(events)] = <<"MatchRevealed", 2, 1>>

\* ---- C12 ----
\* C12: request ids are not confused across purposes. processMatching on an
\* id that no requestMatchingReviewers call was handed (never issued, or issued
\* to revealMatchedReviewer) fails with "Invalid request"; finalizeReveal on an
\* id that no revealMatchedReviewer call was handed fails with "Invalid
\* request"; and no id is pending as a matching and as a reveal request at once.
C12_NoCrossPurpose ==
    [][ /\ (last'.op = "processMatching" /\ issued[last'.arg][1] # "matching")
              => last'.result = ErrInvalidRequest
        /\ (last'.op = "finalizeReveal" /\ issued[last'.arg][1] # "reveal")
              => last'.result = ErrInvalidRequest
        /\ \A r \in RequestKeys : ~(PendingMatching(r)' /\ PendingReveal(r)') ]_vars

\* processMatching was called on an id issued to revealMatchedReviewer while
\* a matching request of the same paper is pending under another id
C12_Witness ==
    /\ last.op = "processMatching"
    /\ last.result = ErrInvalidRequest
    /\ issued[last.arg][1] = "reveal"
    /\ PendingReveal(last.arg)
    /\ \E r \in RequestKeys :
          /\ PendingMatching(r)
          /\ requestToPaperId[r] = requestToReviewerId[last.arg]

\* ---- C13 ----
\* the errors of the contract's own checks
GuardErrors ==
    {ErrInvalidPaper, ErrNoReviewers, ErrInvalidRequest, ErrNoMatch,
     ErrAlreadyRevealed}

\* C13: atomic failure. A call that ends in "Invalid paper ID", "No reviewers
\* available", "Invalid request", "No match found" or "Already revealed" leaves
\* the counters, the records, the match results, the pending entries of both
\* kinds, the oracle's request counter and the event log as they were.
C13_AtomicFailure ==
    [][ (last'.result \in GuardErrors)
           => /\ storage' = storage
              /\ \A r \in RequestKeys : issued'[r] = issued[r] ]_vars

\* a call failed on an empty registry in a state that holds papers, a pending
\* request and events
C13_Witness ==
    /\ last.result = ErrNoReviewers
    /\ last.op = "processMatching"
    /\ paperCount = 2
    /\ PendingMatching(last.arg)
    /\ requestCounter = 2
    /\ Len(events) = 4
    /\ ~HasMatch(requestToPaperId[last.arg])

\* ---- C14 ----
\* C14 as claimed, in its most direct case: a revealMatchedReviewer(p) call
\* that comes right after a successful revealMatchedReviewer(p), so for the same
\* MatchResult, fails with "Already revealed" and issues no second reveal
\* request of that MatchResult.
C14_SecondRevealRejected ==
    [][ (/\ last.op = "revealMatchedReviewer"
         /\ last.result = OK
         /\ last'.op = "revealMatchedReviewer"
         /\ last'.arg = last.arg)
           => last'.result = ErrAlreadyRevealed ]_vars

\* C14: revealMatchedReviewer(p) looks at the flag only, whether or not a
\* reveal request of p is pending: it fails with "Already revealed" exactly
\* when MatchResult[p] exists with isRevealed true, and it succeeds, issuing one
\* more reveal request of p, exactly when MatchResult[p] exists with isRevealed
\* false.
C14_RevealRejectedOnceRevealed ==
    [][ (last'.op = "revealMatchedReviewer")
           => LET p == last'.arg IN
                /\ (last'.result = ErrAlreadyRevealed)
                      <=> (HasMatch(p) /\ matchResults[p].isRevealed)
                /\ (last'.result = OK)
                      <=> (HasMatch(p) /\ ~matchResults[p].isRevealed)
                /\ (last'.result = OK)
                      => /\ requestCounter' = requestCounter + 1
                         /\ issued'[requestCounter] = <<"reveal", p>>
                         /\ requestToReviewerId'[requestCounter] = p ]_vars

\* a second reveal request of an unrevealed MatchResult has been issued while
\* the first one is pending and undelivered
C14_Witness ==
    /\ last.op = "revealMatchedReviewer"
    /\ last.result = OK
    /\ ~matchResults[last.arg].isRevealed
    /\ finalized = {}
    /\ Cardinality({r \in RequestKeys : issued[r] = <<"reveal", last.arg>>
                                        /\ PendingReveal(r)}) = 2
    /\ Cardinality(processed) = 1

\* ---- C15 ----
\* the step appends a MatchRevealed event of paper p
EmitsMatchRevealed(p) ==
    /\ Len(events') > Len(events)
    /\ \E i \in (Len(events) + 1)..Len(events') :
          events'[i][1] = "MatchRevealed" /\ events'[i][2] = p

\* C15: gated disclosure. MatchResult[p].isRevealed turns true, and a
\* MatchRevealed event of p is emitted, only in a successful finalizeReveal
\* step whose request id was issued to an earlier successful
\* revealMatchedReviewer(p) and whose proof the verifier accepted.
C15_GatedDisclosure ==
    [][ \A p \in PaperKeys :
          ((~matchResults[p].isRevealed /\ matchResults'[p].isRevealed)
              \/ EmitsMatchRevealed(p))
          => /\ last'.op = "finalizeReveal"
             /\ last'.result = OK
             /\ last'.sigOk
             /\ issued[last'.arg] = <<"reveal", p>>
             /\ HasMatch(p) ]_vars

\* the flag of paper 2 turned true, and MatchRevealed was emitted, by the first
\* accepted callback of a reveal request of paper 2
C15_Witness ==
    /\ last.op = "finalizeReveal"
    /\ last.result = OK
    /\ last.sigOk
    /\ issued[last.arg] = <<"reveal", 2>>
    /\ matchResults[2].isRevealed
    /\ events[Len(events)][1] = "MatchRevealed"
    /\ Cardinality(finalized) = 1

\* ---- C16 ----
\* C16: frame of finalizeReveal. A successful finalizeReveal on a request id
\* pending for paper p changes, of MatchResult[p], the isRevealed flag only
\* (paperId, reviewerId and the score handle stay), leaves the MatchResult of
\* every other paper, all paper and reviewer records, both counters, the
\* request counter and every pending matching entry as they were, touches no
\* reveal entry but its own, and adds one event to the log.
C16_FinalizeRevealFrame ==
    [][ (last'.op = "finalizeReveal" /\ last'.result = OK)
           => LET p == requestToReviewerId[last'.arg] IN
                /\ matchResults'[p] = [matchResults[p] EXCEPT !.isRevealed = TRUE]
                /\ \A q \in PaperKeys \ {p} : matchResults'[q] = matchResults[q]
                /\ encryptedPapers' = encryptedPapers
                /\ encryptedReviewers' = encryptedReviewers
                /\ paperCount' = paperCount
                /\ reviewerCount' = reviewerCount
                /\ requestCounter' = requestCounter
                /\ requestToPaperId' = requestToPaperId
                /\ \A r \in RequestKeys \ {last'.arg} :
                      requestToReviewerId'[r] = requestToReviewerId[r]
                /\ Len(events') = Len(events) + 1
                /\ SubSeq(events', 1, Len(events)) = events ]_vars

\* finalizeReveal succeeded for paper 1 while two papers and two reviewers
\* exist and the matching request of paper 1 is still on record
C16_Witness ==
    /\ last.op = "finalizeReveal"
    /\ last.result = OK
    /\ requestToReviewerId[last.arg] = 1
    /\ paperCount = 2
    /\ reviewerCount = 1
    /\ matchResults[1] = [newMatchResult(1, 1) EXCEPT !.isRevealed = TRUE]
    /\ \E r \in RequestKeys : requestToPaperId[r] = 1

\* ---- C17 ----
\* C17: records are immutable after creation. Once a paper record or a
\* reviewer record is stored under an id, no step of any function changes a
\* field of it or removes it.
C17_RecordsImmutable ==
    [][ /\ \A k \in PaperKeys :
              encryptedPapers[k] # ZeroPaper => encryptedPapers'[k] = encryptedPapers[k]
        /\ \A k \in ReviewerKeys :
              encryptedReviewers[k] # ZeroReviewer
                 => encryptedReviewers'[k] = encryptedReviewers[k] ]_vars

\* a second reviewer was added after the first one: both records are those of
\* their submissions, after a paper was stored and matched
C17_Witness ==
    /\ last.op = "addEncryptedReviewer"
    /\ last.arg = 2
    /\ encryptedReviewers[1] # ZeroReviewer
    /\ encryptedReviewers[2] # ZeroReviewer
    /\ encryptedReviewers[1].encryptedExpertise # encryptedReviewers[2].encryptedExpertise
    /\ encryptedPapers[1] # ZeroPaper
    /\ HasMatch(1)

\* ---- C18 ----
\* C18: requestMatchingReviewers completes at issuance. A successful call for
\* paper p adds exactly one fresh pending matching entry, of p, under the id
\* the oracle hands out, appends MatchingRequested(p), and leaves every match
\* result, every record, both counters and every reveal entry unchanged; the
\* paper, reviewer and score of a match result change in a successful
\* processMatching step on a request of that paper only.
C18_RequestMatchingFrame ==
    [][ /\ (last'.op = "requestMatchingReviewers" /\ last'.result = OK)
           => LET p == last'.arg
                  r == requestCounter
              IN  /\ ~PendingMatching(r)
                  /\ requestCounter' = r + 1
                  /\ requestToPaperId'[r] = p
                  /\ requestToPaperId'[r] # 0
                  /\ \A q \in RequestKeys \ {r} :
                        requestToPaperId'[q] = requestToPaperId[q]
                  /\ requestToReviewerId' = requestToReviewerId
                  /\ events' = Append(events, <<"MatchingRequested", p>>)
                  /\ matchResults' = matchResults
                  /\ encryptedPapers' = encryptedPapers
                  /\ encryptedReviewers' = encryptedReviewers
                  /\ paperCount' = paperCount
                  /\ reviewerCount' = reviewerCount
        /\ \A p \in PaperKeys :
              ([matchResults'[p] EXCEPT !.isRevealed = FALSE]
                   # [matchResults[p] EXCEPT !.isRevealed = FALSE])
              => /\ last'.op = "processMatching"
                 /\ last'.result = OK
                 /\ requestToPaperId[last'.arg] = p ]_vars

\* ---- C19 ----
\* the match results a run ends with when the oracle delivers payload c, under
\* the proof over c, to processMatching for request r in the current state
DeliveredMatchResults(r, c) ==
    IF processMatchingResult(r, c, [rid |-> r, ct |-> c]) = OK
    THEN matchResultsAfter(r, c)
    ELSE matchResults

\* C19 as claimed: the evaluator returns the lowest existing reviewer id
\* whenever the registry is non-empty, and two runs that differ only in the
\* cleartext delivered to processMatching end with the same match results.
C19_AnyCleartextSameResult ==
    \A r \in RequestKeys : \A c1, c2 \in Cleartexts :
        /\ reviewerCount > 0 => findBestMatch(c1) = LowestReviewerId
        /\ DeliveredMatchResults(r, c1) = DeliveredMatchResults(r, c2)

\* C19: the evaluator's answer depends on the registry only, never on the
\* payload, and is the lowest existing reviewer id whenever the registry is
\* non-empty; two runs that differ only in the cleartext delivered to
\* processMatching end with the same match results if both payloads decode as
\* a string[], and a payload that does not decode leaves the results as they
\* were.
C19_EvaluatorIgnoresPayload ==
    \A r \in RequestKeys : \A c1, c2 \in Cleartexts :
        /\ findBestMatch(c1) = findBestMatch(c2)
        /\ reviewerCount > 0 => findBestMatch(c1) = LowestReviewerId
        /\ (AbiDecodable(c1) /\ AbiDecodable(c2))
              => DeliveredMatchResults(r, c1) = DeliveredMatchResults(r, c2)
        /\ ~AbiDecodable(c1) => DeliveredMatchResults(r, c1) = matchResults

\* processMatching has stored reviewer 1 for a paper while two reviewers
\* exist, and a delivery of either decodable payload, or of the malformed one,
\* for the same request would end with the same match results
C19_Witness ==
    /\ last.op = "processMatching"
    /\ last.result = OK
    /\ reviewerCount = 2
    /\ matchResults[requestToPaperId[last.arg]].reviewerId = 1
    /\ DeliveredMatchResults(last.arg, "strings") = matchResults
    /\ DeliveredMatchResults(last.arg, "other strings") = matchResults
    /\ DeliveredMatchResults(last.arg, "malformed") = matchResults

\* ---- C20 ----
\* C20: liveness under a fair oracle. With at least one reviewer registered,
\* every successful requestMatchingReviewers(p) is eventually followed by a
\* state in which MatchResult[p] exists, and every successful
\* revealMatchedReviewer(p) by a state in which MatchResult[p].isRevealed is
\* true (or, in the bounded model, by a full event log, which is the one thing
\* that can keep finalizeReveal from emitting).
C20_FairOracleLiveness ==
    \A p \in PaperKeys :
        /\ ((\E r \in RequestKeys : issued[r] = <<"matching", p>>)
               /\ reviewerCount > 0)
              ~> HasMatch(p)
        /\ ((\E r \in RequestKeys : issued[r] = <<"reveal", p>>)
               /\ reviewerCount > 0)
              ~> (matchResults[p].isRevealed \/ Len(events) = MaxEvents)

\* ---- C21 ----
\* C21: no expiry and no cancellation. A pending request whose callback has
\* not been accepted stays pending, bound to the same function and the same
\* paper, over every step: no submission, no further request and no callback
\* of another request id removes or retargets it; and a MatchResult of paper p
\* comes to exist in a successful processMatching step on a request of p only.
C21_NoExpiry ==
    [][ /\ \A r \in RequestKeys \ processed' :
              PendingMatching(r)
                 => /\ requestToPaperId'[r] = requestToPaperId[r]
                    /\ ~PendingReveal(r)'
                    /\ issued'[r] = issued[r]
        /\ \A r \in RequestKeys \ finalized' :
              PendingReveal(r)
                 => /\ requestToReviewerId'[r] = requestToReviewerId[r]
                    /\ ~PendingMatching(r)'
                    /\ issued'[r] = issued[r]
        /\ \A p \in PaperKeys :
              (~HasMatch(p) /\ HasMatch(p)')
                 => /\ last'.op = "processMatching"
                    /\ last'.result = OK
                    /\ requestToPaperId[last'.arg] = p ]_vars

\* the matching request of paper 1 under id 0 is still pending, undelivered and
\* without result, after a paper was submitted, a request of paper 2 was
\* issued, delivered and its result put up for reveal
C21_Witness ==
    /\ requestToPaperId[0] = 1
    /\ issued[0] = <<"matching", 1>>
    /\ 0 \notin processed
    /\ ~HasMatch(1)
    /\ HasMatch(2)
    /\ last.op = "revealMatchedReviewer"
    /\ last.result = OK
    /\ requestCounter = 3

\* ---- C22 ----
\* C22: a reveal request is bound to the match result it was issued for. In
\* its most direct case: when MatchResult[p] has just been written by a
\* successful processMatching, so that no revealMatchedReviewer(p) has succeeded
\* since, the first delivery of a reveal callback for p, which was requested
\* for an earlier result, does not set isRevealed on the new result. (The case
\* is taken where two matching requests have been delivered, one per result.)
C22_RevealBoundToResult ==
    [][ \A p \in PaperKeys :
          (/\ last.op = "processMatching"
           /\ last.result = OK
           /\ requestToPaperId[last.arg] = p
           /\ Cardinality(processed) = 2
           /\ last'.op = "finalizeReveal"
           /\ last'.arg \notin finalized
           /\ requestToReviewerId[last'.arg] = p)
          => ~matchResults'[p].isRevealed ]_vars

\* ---- C23 ----
\* C23: finalizeReveal never succeeds for a paper whose MatchResult is already
\* revealed, so that one MatchResult gets at most one MatchRevealed event;
\* stated for the first delivery of each reveal request (a repeated delivery of
\* one request id is the subject of C2).
C23_NoRevealOfRevealed ==
    [][ (/\ last'.op = "finalizeReveal"
         /\ last'.result = OK
         /\ last'.arg \notin finalized)
           => ~matchResults[requestToReviewerId[last'.arg]].isRevealed ]_vars

\* ---- C24 ----
\* C24: match results are well formed. In every reachable state every existing
\* MatchResult stored under key p has paperId p with 1 <= p <= paperCount and a
\* reviewerId with 1 <= reviewerId <= reviewerCount, the paper and the reviewer
\* it names have records, and no MatchResult is stored under key 0.
C24_MatchResultsWellFormed ==
    /\ ~HasMatch(0)
    /\ \A p \in PaperKeys :
          HasMatch(p)
             => /\ matchResults[p].paperId = p
                /\ 1 <= p /\ p <= paperCount
                /\ 1 <= matchResults[p].reviewerId
                /\ matchResults[p].reviewerId <= reviewerCount
                /\ encryptedPapers[p].id = p
                /\ encryptedReviewers[matchResults[p].reviewerId].id
                      = matchResults[p].reviewerId

\* a result was stored for the last of two papers in a run in which a request
\* of paper 0 was accepted
C24_Witness ==
    /\ last.op = "processMatching"
    /\ last.result = OK
    /\ HasMatch(paperCount)
    /\ paperCount = 2
    /\ issued[0] = <<"matching", 0>>
    /\ requestToPaperId[last.arg] = 2

\* ---- C25 ----
\* event e stands in the log before position i
EmittedBefore(i, e) == \E j \in 1..(i - 1) : events[j] = e

\* C25: event ordering per paper. In every reachable log each
\* MatchRevealed(p, r) comes after a MatchingRequested(p) that comes after the
\* PaperSubmitted of p, and after ReviewerAdded(r); the PaperSubmitted events
\* carry the ids 1, 2, 3, ... in this order, the ReviewerAdded events likewise,
\* each id once.
C25_EventOrdering ==
    /\ \A i \in 1..Len(events) :
          events[i][1] = "MatchRevealed"
             => /\ \E j \in 1..(i - 1) :
                      /\ events[j] = <<"MatchingRequested", events[i][2]>>
                      /\ \E k \in 1..(j - 1) :
                            /\ events[k][1] = "PaperSubmitted"
                            /\ events[k][2] = events[i][2]
                /\ EmittedBefore(i, <<"ReviewerAdded", events[i][3]>>)
    /\ \A i \in 1..Len(PaperSubmittedEvents) : PaperSubmittedEvents[i][2] = i
    /\ \A i \in 1..Len(ReviewerAddedEvents) : ReviewerAddedEvents[i][2] = i

\* the log holds the reveal of paper 2 with reviewer 1, after the submissions
\* of two papers and one reviewer
C25_Witness ==
    /\ Len(events) = 5
    /\ events[5] = <<"MatchRevealed", 2, 1>>
    /\ Len(PaperSubmittedEvents) = 2
    /\ Len(ReviewerAddedEvents) = 1

\* ---- C26 ----
\* C26: per-paper isolation. A step changes MatchResult[q] (creates it,
\* overwrites it or sets its flag) only if it is a successful processMatching
\* on a matching request of q or a successful finalizeReveal on a reveal
\* request of q; requestMatchingReviewers and revealMatchedReviewer change no
\* MatchResult, and a callback for a request of paper p changes none but p's.
C26_PerPaperIsolation ==
    [][ \A q \in PaperKeys :
          matchResults'[q] # matchResults[q]
             => /\ last'.result = OK
                /\ \/ /\ last'.op = "processMatching"
                      /\ issued[last'.arg] = <<"matching", q>>
                      /\ requestToPaperId[last'.arg] = q
                   \/ /\ last'.op = "finalizeReveal"
                      /\ issued[last'.arg] = <<"reveal", q>>
                      /\ requestToReviewerId[last'.arg] = q ]_vars

\* the callback of the matching request of paper 2 was accepted while paper 1
\* has a result with a reveal pending: the result of paper 1 is as it was stored
C26_Witness ==
    /\ last.op = "processMatching"
    /\ last.result = OK
    /\ requestToPaperId[last.arg] = 2
    /\ matchResults[2] = newMatchResult(2, 1)
    /\ matchResults[1] = newMatchResult(1, 1)
    /\ \E r \in RequestKeys : issued[r] = <<"reveal", 1>>

\* ---- C27 ----
\* C27: frame of revealMatchedReviewer. A successful revealMatchedReviewer(p)
\* records one pending reveal entry of p under an id no request was given
\* before, and nothing else: it emits no event and leaves MatchResult[p], with
\* its flag false, every other match result, every record, both counters,
\* every pending matching entry and every other reveal entry as they were; the
\* flag of a result turns true in a successful finalizeReveal step only.
C27_RevealRequestFrame ==
    [][ /\ \A q \in PaperKeys :
              (~matchResults[q].isRevealed /\ matchResults'[q].isRevealed)
                 => (last'.op = "finalizeReveal" /\ last'.result = OK)
        /\ (last'.op = "revealMatchedReviewer" /\ last'.result = OK)
           => LET p == last'.arg
                  r == requestCounter
              IN  /\ p # 0
                  /\ issued[r] = NotIssued
                  /\ ~PendingReveal(r) /\ ~PendingMatching(r)
                  /\ requestToReviewerId' = [requestToReviewerId EXCEPT ![r] = p]
                  /\ requestCounter' = r + 1
                  /\ events' = events
                  /\ matchResults' = matchResults
                  /\ HasMatch(p) /\ ~matchResults'[p].isRevealed
                  /\ encryptedPapers' = encryptedPapers
                  /\ encryptedReviewers' = encryptedReviewers
                  /\ paperCount' = paperCount
                  /\ reviewerCount' = reviewerCount
                  /\ requestToPaperId' = requestToPaperId ]_vars

\* a reveal of paper 2 was requested under id 2 while the matching requests of
\* both papers are on record and paper 1 has no result
C27_Witness ==
    /\ last.op = "revealMatchedReviewer"
    /\ last.result = OK
    /\ last.arg = 2
    /\ requestToReviewerId[2] = 2
    /\ ~matchResults[2].isRevealed
    /\ \E r \in RequestKeys : requestToPaperId[r] = 1
    /\ ~HasMatch(1)
    /\ Len(events) = 5

=============================================================================
